---- MODULE Spec2Model ----
(***************************************************************************)
(* Date-range room inventory ledger of neststay-api.                       *)
(*                                                                         *)
(* The ledger operations are translated from                               *)
(* app/repositories/room_date_inventory_repo.py, the booking store from    *)
(* app/repositories/booking_repo.py and app/models/booking.py, the         *)
(* uniqueness constraint from app/models/room_date_inventory.py.           *)
(* The change of a room type's capacity is RoomTypeService.update of       *)
(* app/services/room_type_service.py.                                      *)
(* The storage engine is the one config.py connects to (MySQL/InnoDB):     *)
(* plain SELECTs read the transaction's snapshot, SELECT ... FOR UPDATE,   *)
(* INSERT and UPDATE take exclusive row locks that are held until the      *)
(* transaction ends.  The repository holds no booking workflow; the        *)
(* create/cancel protocols that compose the ledger operations are taken    *)
(* from the design document (section 4.2).                                 *)
(***************************************************************************)
EXTENDS Integers, Sequences, FiniteSets, TLC

\* ---------------------------------------------------------------- bounds
MaxDate == 2          \* nights are 1..MaxDate
NumRoomTypes == 2     \* room type ids are 1..NumRoomTypes
TotalInventory == 2   \* RoomType.total_inventory of every room type
NumTxn == 2           \* concurrently open sessions
MaxOps == 3           \* calls started in one behaviour
MaxCalls == 4         \* calls started in one behaviour where calls run one at a time
NumGuests == 2        \* guest ids are 1..NumGuests
NumRandoms == 2       \* values generate_random_string can give

Dates == 1..MaxDate
DateArgs == 1..(MaxDate + 1)
RoomTypes == 1..NumRoomTypes
RoomTypeArgs == 1..(NumRoomTypes + 1)
Guests == 1..NumGuests
Randoms == 1..NumRandoms
Txns == 1..NumTxn
Counts == 1..TotalInventory
CountArgs == 0..TotalInventory
Totals == {TotalInventory, TotalInventory + 1}

VARIABLES
    inventory,   \* committed rows of table room_date_inventory
    bookings,    \* committed rows of table bookings
    next_id,     \* auto-increment counter of room_date_inventory.id
    started,     \* number of calls started so far
    pc,          \* pc[t]: position of session t in its workflow call
    req,         \* req[t]: arguments of the call session t runs
    sess,        \* sess[t]: unit of work of session t (pending, flushed, dirty)
    held,        \* held[t]: ids of the inventory rows session t has locked
    outcome,     \* outcome of the call that ended last
    last,        \* the last repository call made directly, with its return value
    total_inventory   \* total_inventory[r]: RoomType.total_inventory of room type r

vars == <<inventory, bookings, next_id, started, pc, req, sess, held, outcome, last,
          total_inventory>>

\* ------------------------------------------------------------- helpers
Min(S) == CHOOSE x \in S : \A y \in S : x <= y

Max2(a, b) == IF a >= b THEN a ELSE b

\* RoomDateInventory: one row of the table
RoomDateInventory(id, room_type_id, date, total_rooms, booked_count) ==
    [id |-> id, room_type_id |-> room_type_id, date |-> date,
     total_rooms |-> total_rooms, booked_count |-> booked_count]

\* the end date taken as included
InRange_closed(row, room_type_id, start_date, end_date) ==
    /\ row.room_type_id = room_type_id
    /\ row.date >= start_date
    /\ row.date <= end_date

\* the three .where() clauses every ledger statement shares
InRange(row, room_type_id, start_date, end_date) ==
    /\ row.room_type_id = room_type_id
    /\ row.date >= start_date
    /\ row.date < end_date

RowsInRange(table, room_type_id, start_date, end_date) ==
    {row \in table : InRange(row, room_type_id, start_date, end_date)}

\* the order_by left out: the rows come in primary-key order
RECURSIVE OrderById(_)
OrderById(rows) ==
    IF rows = {} THEN <<>>
    ELSE LET first == CHOOSE r \in rows : \A o \in rows : r.id <= o.id
         IN  <<first>> \o OrderById(rows \ {first})

\* .order_by(RoomDateInventory.date): the rows as a list, ascending date
\* (ties, which the unique constraint excludes, in id order)
RECURSIVE OrderByDate(_)
OrderByDate(rows) ==
    IF rows = {} THEN <<>>
    ELSE LET first == CHOOSE r \in rows : \A o \in rows :
                          \/ r.date < o.date
                          \/ (r.date = o.date /\ r.id <= o.id)
         IN  <<first>> \o OrderByDate(rows \ {first})

SeqToSet(s) == {s[i] : i \in 1..Len(s)}

\* the table without the constraint: no insert is refused
NoConstraint(table, row) == FALSE

\* UniqueConstraint("room_type_id", "date"): does inserting row violate it
UniqueViolation(table, row) ==
    \E r \in table : r.room_type_id = row.room_type_id /\ r.date = row.date

\* ------------------------------------------------- ledger operations
\* an instance added for every date of the range, existing or not
ensure_rows_exist_all(table, room_type_id, start_date, end_date, total_rooms) ==
    IF start_date >= end_date THEN {}
    ELSE {RoomDateInventory(0, room_type_id, current, total_rooms, 0) :
             current \in start_date..(end_date - 1)}

\* the new rows given the default capacity, whatever total_rooms is
ensure_rows_exist_default_total(table, room_type_id, start_date, end_date, total_rooms) ==
    IF start_date >= end_date THEN {}
    ELSE LET existing_dates ==
                 {row.date : row \in RowsInRange(table, room_type_id, start_date, end_date)}
         IN  {RoomDateInventory(0, room_type_id, current, TotalInventory, 0) :
                 current \in {d \in start_date..(end_date - 1) : d \notin existing_dates}}

\* ensure_rows_exist: the instances it hands to session.add (id not yet set)
ensure_rows_exist(table, room_type_id, start_date, end_date, total_rooms) ==
    IF start_date >= end_date THEN {}
    ELSE LET existing_dates ==
                 {row.date : row \in RowsInRange(table, room_type_id, start_date, end_date)}
         IN  {RoomDateInventory(0, room_type_id, current, total_rooms, 0) :
                 current \in {d \in start_date..(end_date - 1) : d \notin existing_dates}}

\* get_for_date_range_with_lock: the list it returns
get_for_date_range_with_lock(table, room_type_id, start_date, end_date) ==
    IF start_date >= end_date THEN <<>>
    ELSE OrderByDate(RowsInRange(table, room_type_id, start_date, end_date))

\* the best night taken instead of the worst
max_available(rows) ==
    CHOOSE x \in {row.total_rooms - row.booked_count : row \in rows} :
        \A row \in rows : x >= row.total_rooms - row.booked_count

\* min(row.total_rooms - row.booked_count for row in rows)
min_available(rows) == Min({row.total_rooms - row.booked_count : row \in rows})

\* the two zero cases unified: a range without rows answered like an empty range
check_availability_unified(table, room_type_id, start_date, end_date, num_rooms) ==
    IF start_date >= end_date THEN <<TRUE, 0>>
    ELSE LET rows == RowsInRange(table, room_type_id, start_date, end_date)
         IN  IF rows = {} THEN <<TRUE, 0>>
             ELSE <<min_available(rows) >= num_rooms, min_available(rows)>>

\* check_availability: (is_available, min_rooms_available)
check_availability(table, room_type_id, start_date, end_date, num_rooms) ==
    IF start_date >= end_date THEN <<TRUE, 0>>
    ELSE LET rows == RowsInRange(table, room_type_id, start_date, end_date)
         IN  IF rows = {} THEN <<FALSE, 0>>
             ELSE <<min_available(rows) >= num_rooms, min_available(rows)>>

\* every row raised by one, whatever count is
increment_booked_by_one(rows, count) ==
    {[row EXCEPT !.booked_count = row.booked_count + 1] : row \in rows}

\* increment_booked: the rows after row.booked_count += count
increment_booked(rows, count) ==
    {[row EXCEPT !.booked_count = row.booked_count + count] : row \in rows}

\* the end date taken as included
decrement_booked_closed(table, room_type_id, start_date, end_date, count) ==
    IF start_date >= end_date THEN {}
    ELSE {[row EXCEPT !.booked_count = Max2(0, row.booked_count - count)] :
             row \in RowsInRange(table, room_type_id, start_date, end_date + 1)}

\* the floor at zero left out
decrement_booked_unfloored(table, room_type_id, start_date, end_date, count) ==
    IF start_date >= end_date THEN {}
    ELSE {[row EXCEPT !.booked_count = row.booked_count - count] :
             row \in RowsInRange(table, room_type_id, start_date, end_date)}

\* decrement_booked: the rows it loads, after max(0, booked_count - count)
decrement_booked(table, room_type_id, start_date, end_date, count) ==
    IF start_date >= end_date THEN {}
    ELSE {[row EXCEPT !.booked_count = Max2(0, row.booked_count - count)] :
             row \in RowsInRange(table, room_type_id, start_date, end_date)}

\* the UPDATE keyed by the date alone: it reaches the other room types' rows
ApplyUpdates_by_date(table, dirty) ==
    {IF \E u \in dirty : u.date = row.date
       THEN [row EXCEPT !.booked_count = (CHOOSE u \in dirty : u.date = row.date).booked_count]
       ELSE row : row \in table}

\* UPDATE room_date_inventory SET booked_count = ... WHERE id = ...
ApplyUpdates(table, dirty) ==
    {IF \E u \in dirty : u.id = row.id
       THEN [row EXCEPT !.booked_count = (CHOOSE u \in dirty : u.id = row.id).booked_count]
       ELSE row : row \in table}

\* ------------------------------------------------------ booking store
\* Booking: one row of table bookings (status defaults to PENDING)
Booking(slug, guest_id, room_type_id, check_in, check_out, num_rooms) ==
    [slug |-> slug, guest_id |-> guest_id, room_type_id |-> room_type_id,
     check_in |-> check_in, check_out |-> check_out, num_rooms |-> num_rooms,
     status |-> "pending", deleted |-> FALSE]

\* the filter on deleted_at left out
get_by_slug_any(table, slug) ==
    {b \in table : b.slug = slug}

\* BookingRepository.get_by_slug: the matching rows that are not soft-deleted
\* (the empty set stands for None)
get_by_slug(table, slug) ==
    {b \in table : b.slug = slug /\ ~b.deleted}

\* BookingRepository.soft_delete: deleted_at is set on the instance loaded
\* through get_by_slug, the other rows stay as they are
soft_delete(table, slug) ==
    {IF b \in get_by_slug(table, slug) THEN [b EXCEPT !.deleted = TRUE] ELSE b :
        b \in table}

\* BookingStatus
BookingStatus == {"pending", "confirmed", "checked_in", "checked_out", "cancelled",
                  "no_show"}

\* BookingRepository.update: the instance, loaded through get_by_slug and given
\* its new status by the caller, is handed to session.add as it is
update(table, slug, status) ==
    {IF b \in get_by_slug(table, slug) THEN [b EXCEPT !.status = status] ELSE b :
        b \in table}

\* the rows in ascending check_in order
RECURSIVE OrderByCheckInAsc(_)
OrderByCheckInAsc(rows) ==
    IF rows = {} THEN {<<>>}
    ELSE UNION {{<<first>> \o rest : rest \in OrderByCheckInAsc(rows \ {first})} :
                   first \in {r \in rows : \A o \in rows : r.check_in <= o.check_in}}

\* .order_by(desc(Booking.check_in)): the lists the statement can return, the
\* order of rows with the same check_in being the engine's choice
RECURSIVE OrderByCheckInDesc(_)
OrderByCheckInDesc(rows) ==
    IF rows = {} THEN {<<>>}
    ELSE UNION {{<<first>> \o rest : rest \in OrderByCheckInDesc(rows \ {first})} :
                   first \in {r \in rows : \A o \in rows : r.check_in >= o.check_in}}

\* .offset(offset).limit(limit)
Page(list, offset, limit) ==
    SubSeq(list, offset + 1, IF offset + limit < Len(list) THEN offset + limit
                             ELSE Len(list))

\* BookingRepository.get_by_guest: the lists it can return
get_by_guest(table, guest_id, offset, limit) ==
    {Page(list, offset, limit) :
        list \in OrderByCheckInDesc({b \in table : b.guest_id = guest_id /\ ~b.deleted})}

\* BookingRepository.count_by_guest
count_by_guest(table, guest_id) ==
    Cardinality({b \in table : b.guest_id = guest_id /\ ~b.deleted})

\* the filter on deleted_at left out
slug_exists_any(table, slug) ==
    \E b \in table : b.slug = slug

\* BookingRepository.slug_exists
slug_exists(table, slug) ==
    \E b \in table : b.slug = slug /\ ~b.deleted

\* Field(unique=True) of Booking.slug: does inserting a row with this slug
\* violate the unique index, which covers every row of the table
SlugViolation(table, slug) ==
    \E b \in table : b.slug = slug

\* the slug "{base_slug}-{random_str}" is <<random_str, 0>>, the slug
\* "{base_slug}-{random_str}-{counter}" is <<random_str, counter>>
RECURSIVE NextFreeSlug(_, _, _)
NextFreeSlug(table, random_str, counter) ==
    IF slug_exists(table, <<random_str, counter>>)
    THEN NextFreeSlug(table, random_str, counter + 1)
    ELSE <<random_str, counter>>

\* generate_unique_slug with BookingRepository.slug_exists as check_exists:
\* the first of the candidate slugs that check_exists does not know
generate_unique_slug(table, random_str) == NextFreeSlug(table, random_str, 0)

\* ------------------------------------------------- storage engine
\* rows physically in the table: committed ones and the uncommitted inserts
\* of every open transaction
Physical == inventory \cup UNION {sess[u].ins : u \in Txns}

\* an exclusive row lock can be granted to t when no other transaction holds it
RowLockFree(id, t) == \A u \in Txns \ {t} : id \notin held[u]

\* the locking clause ignored: the read takes the row whoever holds it
with_for_update_ignored(id, t) == TRUE

\* .with_for_update(): the locking read may take the row with this id
with_for_update(id, t) == RowLockFree(id, t)

NoReq == [op |-> "none", room_type_id |-> 0, check_in |-> 0, check_out |-> 0,
          num_rooms |-> 0, slug |-> 0]

NoSess == [pending |-> {}, ins |-> {}, rows |-> <<>>, dirty |-> {}, booking |-> {}]

\* a new call takes the first session that is not in use (the sessions are
\* interchangeable)
FreeSession(t) ==
    /\ pc[t] = "idle"
    /\ \A u \in Txns : u < t => pc[u] # "idle"

NoCall == [op |-> "none", room_type_id |-> 0, start_date |-> 0, end_date |-> 0,
           count |-> 0, ret |-> <<>>, raised |-> "none"]

\* the session ends (commit or rollback): its locks go, its unit of work is
\* emptied, the call returns out
EndWith(t, out) ==
    /\ pc' = [pc EXCEPT ![t] = "idle"]
    /\ sess' = [sess EXCEPT ![t] = NoSess]
    /\ held' = [held EXCEPT ![t] = {}]
    /\ outcome' = out
    /\ req' = [req EXCEPT ![t] = NoReq]

\* session.rollback(): nothing of the unit of work reaches the tables
Rollback(t, out) ==
    /\ EndWith(t, out)
    /\ UNCHANGED <<inventory, bookings>>

\* ------------------------------------------------------ createBooking
\* the guest the workflow calls are made for
CallingGuest == Min(Guests)

\* a stay of no night taken as a stay
ValidStay_lenient(check_in, check_out) == check_in <= check_out

\* a stay has at least one night
ValidStay(check_in, check_out) == check_in < check_out

\* a request for a stay of no night, or one that names a room type no active
\* row matches, is turned down before the ledger is reached: no session work,
\* no row read or written
RejectCreate(t, room_type_id, check_in, check_out, num_rooms) ==
    /\ FreeSession(t)
    /\ ~ValidStay(check_in, check_out) \/ room_type_id \notin RoomTypes
    /\ started' = started + 1
    /\ outcome' = IF ~ValidStay(check_in, check_out) THEN "ValidationError"
                  ELSE "NotFoundError(room_type)"
    /\ UNCHANGED <<inventory, bookings, next_id, pc, req, sess, held, last,
                   total_inventory>>

\* steps 1-2: references validated, ensure_rows_exist run against the
\* transaction's snapshot with the room type's configured total
BeginCreate(t, room_type_id, check_in, check_out, num_rooms) ==
    /\ FreeSession(t)
    /\ ValidStay(check_in, check_out)
    /\ room_type_id \in RoomTypes
    /\ started' = started + 1
    /\ req' = [req EXCEPT ![t] = [op |-> "createBooking", room_type_id |-> room_type_id,
                                  check_in |-> check_in, check_out |-> check_out,
                                  num_rooms |-> num_rooms, slug |-> started + 1]]
    /\ LET pending == ensure_rows_exist(inventory, room_type_id, check_in,
                                        check_out, total_inventory[room_type_id])
       IN  /\ sess' = [sess EXCEPT ![t] = [NoSess EXCEPT !.pending = pending]]
           /\ pc' = [pc EXCEPT ![t] = IF pending = {} THEN "lock" ELSE "insert"]
    /\ UNCHANGED <<inventory, bookings, next_id, held, outcome, last, total_inventory>>

\* the pending instance the flush inserts next (in the order they were added)
NextInsert(t) ==
    CHOOSE row \in sess[t].pending : \A o \in sess[t].pending : row.date <= o.date

\* an INSERT waits while another open transaction holds an uncommitted row
\* with the same key
InsertBlocked(t) ==
    /\ pc[t] = "insert"
    /\ \E u \in Txns \ {t} : UniqueViolation(sess[u].ins, NextInsert(t))

\* autoflush in front of the locking read: one INSERT.  A committed row with
\* the same key raises IntegrityError, which nothing in ensure_rows_exist
\* catches; otherwise the row is stored and locked by the inserter
FlushInsert(t) ==
    /\ pc[t] = "insert"
    /\ ~InsertBlocked(t)
    /\ LET row == NextInsert(t)
       IN  IF UniqueViolation(inventory \cup sess[t].ins, row)
           THEN /\ Rollback(t, "IntegrityError")
                /\ UNCHANGED <<next_id>>
           ELSE /\ sess' = [sess EXCEPT ![t].pending = @ \ {row},
                                        ![t].ins = @ \cup {[row EXCEPT !.id = next_id]}]
                /\ held' = [held EXCEPT ![t] = @ \cup {next_id}]
                /\ next_id' = next_id + 1
                /\ pc' = [pc EXCEPT ![t] = IF sess[t].pending = {row}
                                           THEN "lock" ELSE "insert"]
                /\ UNCHANGED <<inventory, bookings, outcome, req>>
    /\ UNCHANGED <<started, last, total_inventory>>

\* rows of the requested range the locking read has still to lock
LockTargets(t) ==
    {row \in RowsInRange(Physical, req[t].room_type_id, req[t].check_in, req[t].check_out) :
        row.id \notin held[t]}

NextLock(t) == OrderByDate(LockTargets(t))[1]

LockBlocked(t) ==
    /\ pc[t] = "lock"
    /\ LockTargets(t) # {}
    /\ ~with_for_update(NextLock(t).id, t)

\* step 3, get_for_date_range_with_lock: the scan locks the rows one by one
\* in date order
LockRow(t) ==
    /\ pc[t] = "lock"
    /\ LockTargets(t) # {}
    /\ with_for_update(NextLock(t).id, t)
    /\ held' = [held EXCEPT ![t] = @ \cup {NextLock(t).id}]
    /\ UNCHANGED <<inventory, bookings, next_id, started, pc, req, sess, outcome, last, total_inventory>>

\* step 3, end: every row of the range is locked and the locking read
\* returns the committed rows and the session's own inserts
LockedRead(t) ==
    /\ pc[t] = "lock"
    /\ LockTargets(t) = {}
    /\ sess' = [sess EXCEPT ![t].rows =
                   get_for_date_range_with_lock(inventory \cup sess[t].ins,
                       req[t].room_type_id, req[t].check_in, req[t].check_out)]
    /\ pc' = [pc EXCEPT ![t] = "check"]
    /\ UNCHANGED <<inventory, bookings, next_id, started, req, held, outcome, last, total_inventory>>

\* steps 4-6: re-check on the locked rows; AvailabilityError and rollback, or
\* increment_booked, BookingRepository.create and commit
CheckAndCommit(t) ==
    /\ pc[t] = "check"
    /\ LET rows == SeqToSet(sess[t].rows)
       IN  IF req[t].num_rooms > min_available(rows)
           THEN Rollback(t, "AvailabilityError")
           ELSE /\ inventory' = ApplyUpdates(inventory \cup sess[t].ins,
                                             increment_booked(rows, req[t].num_rooms))
                /\ bookings' = bookings \cup
                       {Booking(req[t].slug, CallingGuest, req[t].room_type_id,
                                req[t].check_in, req[t].check_out, req[t].num_rooms)}
                /\ EndWith(t, "Booking")
    /\ UNCHANGED <<next_id, started, last, total_inventory>>

\* ------------------------------------------------------ cancelBooking
\* the instances whose booked_count differs from the stored one (the flush
\* issues an UPDATE for these only)
Changed(table, rows) == {row \in rows : row \notin table}

\* steps 1-3: get_by_slug, status CANCELLED, decrement_booked; all plain
\* reads, answered from the snapshot the first of them establishes
BeginCancel(t, slug) ==
    /\ FreeSession(t)
    /\ started' = started + 1
    /\ IF get_by_slug(bookings, slug) = {}
       THEN /\ outcome' = "NotFoundError"
            /\ UNCHANGED <<pc, sess, req>>
       ELSE LET booking == CHOOSE b \in get_by_slug(bookings, slug) : TRUE
                rows == decrement_booked(inventory, booking.room_type_id,
                                         booking.check_in, booking.check_out,
                                         booking.num_rooms)
            IN  /\ req' = [req EXCEPT ![t] = [NoReq EXCEPT !.op = "cancelBooking",
                                                           !.slug = slug]]
                /\ sess' = [sess EXCEPT ![t] =
                              [NoSess EXCEPT !.dirty = Changed(inventory, rows),
                                             !.booking = {[booking EXCEPT !.status = "cancelled"]}]]
                /\ pc' = [pc EXCEPT ![t] = "flush"]
                /\ UNCHANGED <<outcome>>
    /\ UNCHANGED <<inventory, bookings, next_id, held, last, total_inventory>>

\* dirty rows whose UPDATE has not been issued yet
UpdateTargets(t) == {row \in sess[t].dirty : row.id \notin held[t]}

\* the flush issues the UPDATEs in primary-key order
NextUpdate(t) == CHOOSE row \in UpdateTargets(t) : \A o \in UpdateTargets(t) : row.id <= o.id

UpdateBlocked(t) ==
    /\ pc[t] = "flush"
    /\ UpdateTargets(t) # {}
    /\ ~RowLockFree(NextUpdate(t).id, t)

\* step 4, first half: one UPDATE of the flush, which locks its row
FlushUpdate(t) ==
    /\ pc[t] = "flush"
    /\ UpdateTargets(t) # {}
    /\ RowLockFree(NextUpdate(t).id, t)
    /\ held' = [held EXCEPT ![t] = @ \cup {NextUpdate(t).id}]
    /\ UNCHANGED <<inventory, bookings, next_id, started, pc, req, sess, outcome, last, total_inventory>>

\* step 4, second half: commit of the status change and the release
CommitCancel(t) ==
    /\ pc[t] = "flush"
    /\ UpdateTargets(t) = {}
    /\ inventory' = ApplyUpdates(inventory, sess[t].dirty)
    /\ bookings' = {b \in bookings : b.slug # req[t].slug} \cup sess[t].booking
    /\ EndWith(t, "Booking")
    /\ UNCHANGED <<next_id, started, last, total_inventory>>

\* lock wait timeout or deadlock abort of a waiting transaction
Blocked(t) == InsertBlocked(t) \/ LockBlocked(t) \/ UpdateBlocked(t)

Abort(t) ==
    /\ Blocked(t)
    /\ Rollback(t, "TransientFailure")
    /\ UNCHANGED <<next_id, started, last, total_inventory>>

\* ------------------------------------------------------ specifications
Init ==
    /\ inventory = {}
    /\ bookings = {}
    /\ next_id = 1
    /\ started = 0
    /\ pc = [t \in Txns |-> "idle"]
    /\ req = [t \in Txns |-> NoReq]
    /\ sess = [t \in Txns |-> NoSess]
    /\ held = [t \in Txns |-> {}]
    /\ outcome = "none"
    /\ last = NoCall
    /\ total_inventory = [r \in RoomTypes |-> TotalInventory]

CreateStep(t) ==
    \/ /\ started < MaxOps
       /\ \E room_type_id \in RoomTypes, check_in \in Dates, check_out \in DateArgs,
             num_rooms \in Counts :
              BeginCreate(t, room_type_id, check_in, check_out, num_rooms)
    \/ FlushInsert(t)
    \/ LockRow(t)
    \/ LockedRead(t)
    \/ CheckAndCommit(t)
    \/ Abort(t)

CancelStep(t) ==
    \/ started < MaxOps /\ \E slug \in 1..MaxOps : BeginCancel(t, slug)
    \/ FlushUpdate(t)
    \/ CommitCancel(t)

Next == \E t \in Txns : CreateStep(t) \/ CancelStep(t)

\* concurrent createBooking and cancelBooking calls
Spec == Init /\ [][Next]_vars

NextCreate == \E t \in Txns : CreateStep(t)

\* concurrent createBooking calls only
SpecCreate == Init /\ [][NextCreate]_vars

AllIdle == \A u \in Txns : pc[u] = "idle"

\* BookingRepository.soft_delete of the booking get_by_slug returns, committed
SoftDeleteCall(slug) ==
    /\ AllIdle
    /\ get_by_slug(bookings, slug) # {}
    /\ started' = started + 1
    /\ bookings' = soft_delete(bookings, slug)
    /\ outcome' = "Deleted"
    /\ UNCHANGED <<inventory, next_id, pc, req, sess, held, last, total_inventory>>

NextSerial ==
    \E t \in Txns :
        \/ /\ AllIdle
           /\ started < MaxCalls
           /\ \E room_type_id \in RoomTypeArgs, check_in \in Dates,
                 num_rooms \in Counts :
               \E check_out \in {d \in DateArgs : d >= check_in} :
                  \/ BeginCreate(t, room_type_id, check_in, check_out, num_rooms)
                  \/ RejectCreate(t, room_type_id, check_in, check_out, num_rooms)
        \/ /\ AllIdle
           /\ started < MaxCalls
           /\ \E slug \in 1..MaxCalls : BeginCancel(t, slug) \/ SoftDeleteCall(slug)
        \/ FlushInsert(t)
        \/ LockRow(t)
        \/ LockedRead(t)
        \/ CheckAndCommit(t)
        \/ FlushUpdate(t)
        \/ CommitCancel(t)

\* createBooking and cancelBooking calls, one at a time
SpecSerial == Init /\ [][NextSerial]_vars

NextContend ==
    \E t \in Txns :
        \/ /\ started < MaxCalls
           /\ \E check_in \in Dates, check_out \in DateArgs, num_rooms \in Counts :
                  BeginCreate(t, Min(RoomTypes), check_in, check_out, num_rooms)
        \/ FlushInsert(t)
        \/ LockRow(t)
        \/ LockedRead(t)
        \/ CheckAndCommit(t)
        \/ started < MaxCalls /\ \E slug \in 1..MaxCalls : BeginCancel(t, slug)
        \/ FlushUpdate(t)
        \/ CommitCancel(t)
        \/ Abort(t)

\* concurrent createBooking and cancelBooking calls that contend for the
\* nights of one room type
SpecContend == Init /\ [][NextContend]_vars

\* ------------------------------------- ledger calls made directly
\* Each ledger operation called on its own in one session and committed, as
\* the repository's unit tests do.

Call(op, room_type_id, start_date, end_date, count, ret, raised) ==
    [op |-> op, room_type_id |-> room_type_id, start_date |-> start_date,
     end_date |-> end_date, count |-> count, ret |-> ret, raised |-> raised]

\* the flush gives the added instances their ids, in the order they were added
AssignIds(rows, from) ==
    LET ordered == OrderByDate(rows)
    IN  {[ordered[i] EXCEPT !.id = from + i - 1] : i \in 1..Len(ordered)}

\* the calls that only read
ReadOnly == {"get_for_date_range_with_lock", "check_availability"}

\* a read leaves the tables as they are: the calls that can follow it are
\* the calls that can be made in its place, and are made from there
DirectCall ==
    /\ AllIdle
    /\ last.op \notin ReadOnly
    /\ started < MaxOps
    /\ started' = started + 1
    /\ UNCHANGED <<bookings, pc, req, sess, held, outcome, total_inventory>>

EnsureRowsExistCall(room_type_id, start_date, end_date, total_rooms) ==
    /\ DirectCall
    /\ LET added == ensure_rows_exist(inventory, room_type_id, start_date,
                                      end_date, total_rooms)
       IN  IF \E row \in added : UniqueViolation(inventory, row)
           THEN /\ last' = Call("ensure_rows_exist", room_type_id, start_date,
                                end_date, total_rooms, <<>>, "IntegrityError")
                /\ UNCHANGED <<inventory, next_id>>
           ELSE /\ inventory' = inventory \cup AssignIds(added, next_id)
                /\ next_id' = next_id + Cardinality(added)
                /\ last' = Call("ensure_rows_exist", room_type_id, start_date,
                                end_date, total_rooms, <<>>, "none")

\* the locking read made to create the rows its range lacks
GetForDateRangeWithLockCall_lazy(room_type_id, start_date, end_date) ==
    /\ DirectCall
    /\ LET added == ensure_rows_exist(inventory, room_type_id, start_date,
                                      end_date, total_inventory[room_type_id])
       IN  /\ inventory' = inventory \cup AssignIds(added, next_id)
           /\ next_id' = next_id + Cardinality(added)
           /\ last' = Call("get_for_date_range_with_lock", room_type_id, start_date,
                           end_date, 0,
                           get_for_date_range_with_lock(inventory', room_type_id,
                                                        start_date, end_date), "none")

GetForDateRangeWithLockCall(room_type_id, start_date, end_date) ==
    /\ DirectCall
    /\ last' = Call("get_for_date_range_with_lock", room_type_id, start_date, end_date, 0,
                    get_for_date_range_with_lock(inventory, room_type_id,
                                                 start_date, end_date), "none")
    /\ UNCHANGED <<inventory, next_id>>

CheckAvailabilityCall(room_type_id, start_date, end_date, num_rooms) ==
    /\ DirectCall
    /\ last' = Call("check_availability", room_type_id, start_date, end_date, num_rooms,
                    check_availability(inventory, room_type_id, start_date,
                                       end_date, num_rooms), "none")
    /\ UNCHANGED <<inventory, next_id>>

IncrementBookedCall(room_type_id, start_date, end_date, count) ==
    /\ DirectCall
    /\ LET rows == SeqToSet(get_for_date_range_with_lock(inventory, room_type_id,
                                                         start_date, end_date))
       IN  inventory' = ApplyUpdates(inventory, increment_booked(rows, count))
    /\ last' = Call("increment_booked", room_type_id, start_date, end_date, count,
                    <<>>, "none")
    /\ UNCHANGED <<next_id>>

DecrementBookedCall(room_type_id, start_date, end_date, count) ==
    /\ DirectCall
    /\ inventory' = ApplyUpdates(inventory,
                       decrement_booked(inventory, room_type_id, start_date,
                                        end_date, count))
    /\ last' = Call("decrement_booked", room_type_id, start_date, end_date, count,
                    <<>>, "none")
    /\ UNCHANGED <<next_id>>

\* the update made to recompute the capacity of the room type's rows
RoomTypeUpdateCall_recompute(room_type_id, new_total) ==
    /\ AllIdle
    /\ last.op \notin ReadOnly
    /\ started < MaxOps
    /\ started' = started + 1
    /\ total_inventory' = [total_inventory EXCEPT ![room_type_id] = new_total]
    /\ inventory' = {IF row.room_type_id = room_type_id
                       THEN [row EXCEPT !.total_rooms = new_total]
                       ELSE row : row \in inventory}
    /\ last' = Call("RoomTypeService.update", room_type_id, 0, 0, new_total, <<>>, "none")
    /\ UNCHANGED <<bookings, next_id, pc, req, sess, held, outcome>>

\* RoomTypeService.update with total_inventory set: the room type is stored
\* with the new value and committed; no inventory row is loaded or written
RoomTypeUpdateCall(room_type_id, new_total) ==
    /\ AllIdle
    /\ last.op \notin ReadOnly
    /\ started < MaxOps
    /\ started' = started + 1
    /\ total_inventory' = [total_inventory EXCEPT ![room_type_id] = new_total]
    /\ last' = Call("RoomTypeService.update", room_type_id, 0, 0, new_total, <<>>, "none")
    /\ UNCHANGED <<inventory, bookings, next_id, pc, req, sess, held, outcome>>

NextLedger ==
    \E room_type_id \in RoomTypes, start_date \in DateArgs, end_date \in DateArgs :
        \/ \E total_rooms \in Totals :
               \/ EnsureRowsExistCall(room_type_id, start_date, end_date, total_rooms)
               \/ RoomTypeUpdateCall(room_type_id, total_rooms)
        \/ GetForDateRangeWithLockCall(room_type_id, start_date, end_date)
        \/ \E count \in CountArgs :
               \/ CheckAvailabilityCall(room_type_id, start_date, end_date, count)
               \/ IncrementBookedCall(room_type_id, start_date, end_date, count)
               \/ DecrementBookedCall(room_type_id, start_date, end_date, count)

\* the ledger operations called one after the other
SpecLedger == Init /\ [][NextLedger]_vars

\* ------------------------ check_availability next to open transactions
\* the statement given a locking clause: it waits for the holder of the row
select_for_update(id, t) == RowLockFree(id, t)

\* a plain SELECT (no .with_for_update()): a consistent read, which takes no
\* row lock and waits for none
select(id, t) == TRUE

\* check_availability called in a session of its own (session 0) while the
\* workflow sessions are open: it reads the committed rows and returns
CheckAvailabilityQuery(room_type_id, start_date, end_date, num_rooms) ==
    /\ last.op \notin ReadOnly
    /\ started < MaxOps
    /\ \/ start_date >= end_date
       \/ \A row \in RowsInRange(Physical, room_type_id, start_date, end_date) :
              select(row.id, 0)
    /\ started' = started + 1
    /\ last' = Call("check_availability", room_type_id, start_date, end_date, num_rooms,
                    check_availability(inventory, room_type_id, start_date,
                                       end_date, num_rooms), "none")
    /\ UNCHANGED <<inventory, bookings, next_id, pc, req, sess, held, outcome,
                   total_inventory>>

NextQuery ==
    \/ last.op \notin ReadOnly /\ Next
    \/ \E room_type_id \in RoomTypes, start_date \in DateArgs, end_date \in DateArgs,
          num_rooms \in CountArgs :
           CheckAvailabilityQuery(room_type_id, start_date, end_date, num_rooms)

\* concurrent createBooking and cancelBooking calls, and a check_availability
\* call made at any moment between their steps
SpecQuery == Init /\ [][NextQuery]_vars

\* ------------------------------- booking store calls made directly
\* Each BookingRepository operation called on its own in one session and
\* committed, as the repository's unit tests do.

BookingCall(op, slug, guest_id, offset, limit, ret, raised) ==
    [op |-> op, slug |-> slug, guest_id |-> guest_id, offset |-> offset,
     limit |-> limit, ret |-> ret, raised |-> raised]

\* the booking store calls that only read
BookingReads == {"get_by_slug", "get_by_guest", "count_by_guest", "slug_exists"}

\* slugs generate_unique_slug can give
Slugs == Randoms \X (0..MaxCalls)

Offsets == 0..MaxOps

StoreCall ==
    /\ AllIdle
    /\ last.op \notin BookingReads
    /\ started < MaxCalls
    /\ started' = started + 1
    /\ UNCHANGED <<inventory, next_id, pc, req, sess, held, outcome, total_inventory>>

\* a booking given the slug generate_unique_slug returns, BookingRepository.create
\* and commit: the INSERT is refused when a row of the table holds the slug
BookingCreateCall(guest_id, room_type_id, check_in, check_out, num_rooms, random_str) ==
    /\ StoreCall
    /\ LET slug == generate_unique_slug(bookings, random_str)
       IN  IF SlugViolation(bookings, slug)
           THEN /\ last' = BookingCall("create", slug, guest_id, 0, 0, <<>>,
                                       "IntegrityError")
                /\ UNCHANGED <<bookings>>
           ELSE /\ bookings' = bookings \cup
                       {Booking(slug, guest_id, room_type_id, check_in, check_out,
                                num_rooms)}
                /\ last' = BookingCall("create", slug, guest_id, 0, 0, <<>>, "none")

\* the status set on a loaded booking, BookingRepository.update and commit
BookingUpdateCall(slug, status) ==
    /\ StoreCall
    /\ get_by_slug(bookings, slug) # {}
    /\ bookings' = update(bookings, slug, status)
    /\ last' = BookingCall("update", slug, 0, 0, 0, <<status>>, "none")

\* BookingRepository.soft_delete of a loaded booking and commit
BookingSoftDeleteCall(slug) ==
    /\ StoreCall
    /\ get_by_slug(bookings, slug) # {}
    /\ bookings' = soft_delete(bookings, slug)
    /\ last' = BookingCall("soft_delete", slug, 0, 0, 0, <<>>, "none")

GetBySlugCall(slug) ==
    /\ StoreCall
    /\ last' = BookingCall("get_by_slug", slug, 0, 0, 0, get_by_slug(bookings, slug),
                           "none")
    /\ UNCHANGED <<bookings>>

GetByGuestCall(guest_id, offset, limit) ==
    /\ StoreCall
    /\ \E list \in get_by_guest(bookings, guest_id, offset, limit) :
           last' = BookingCall("get_by_guest", <<>>, guest_id, offset, limit, list,
                               "none")
    /\ UNCHANGED <<bookings>>

CountByGuestCall(guest_id) ==
    /\ StoreCall
    /\ last' = BookingCall("count_by_guest", <<>>, guest_id, 0, 0,
                           count_by_guest(bookings, guest_id), "none")
    /\ UNCHANGED <<bookings>>

SlugExistsCall(slug) ==
    /\ StoreCall
    /\ last' = BookingCall("slug_exists", slug, 0, 0, 0, slug_exists(bookings, slug),
                           "none")
    /\ UNCHANGED <<bookings>>

NextBookings ==
    \/ \E guest_id \in Guests, check_in \in Dates, random_str \in Randoms :
           \E check_out \in {d \in DateArgs : d > check_in} :
               BookingCreateCall(guest_id, Min(RoomTypes), check_in, check_out,
                                 Min(Counts), random_str)
    \/ \E slug \in Slugs :
           \/ \E status \in BookingStatus : BookingUpdateCall(slug, status)
           \/ BookingSoftDeleteCall(slug)
           \/ GetBySlugCall(slug)
           \/ SlugExistsCall(slug)
    \/ \E guest_id \in Guests :
           \/ \E offset \in Offsets, limit \in Offsets :
                  GetByGuestCall(guest_id, offset, limit)
           \/ CountByGuestCall(guest_id)

\* the booking store operations called one after the other
SpecBookings == Init /\ [][NextBookings]_vars

\* ------------------------------------------------------------ claims
Nights(b) == b.check_in..(b.check_out - 1)

RECURSIVE SumRooms(_)
SumRooms(bs) ==
    IF bs = {} THEN 0
    ELSE LET b == CHOOSE x \in bs : TRUE
         IN  b.num_rooms + SumRooms(bs \ {b})

\* the committed non-cancelled bookings of a room type that cover night d
Covering(room_type_id, d) ==
    {b \in bookings : /\ b.room_type_id = room_type_id
                      /\ b.status # "cancelled"
                      /\ d \in Nights(b)}

RowsFor(table, room_type_id, d) ==
    {row \in table : row.room_type_id = room_type_id /\ row.date = d}

\* committed booked_count of a night (0 while the night has no row)
BookedAt(table, room_type_id, d) ==
    IF RowsFor(table, room_type_id, d) = {} THEN 0
    ELSE (CHOOSE row \in RowsFor(table, room_type_id, d) : TRUE).booked_count

\* C1: under concurrent createBooking calls, in every committed state and for
\* every night, the rooms of the non-cancelled bookings covering the night add
\* up to at most the total_rooms of the night's inventory row.
C1_NoOversell ==
    \A room_type_id \in RoomTypes, d \in Dates :
        Covering(room_type_id, d) # {} =>
            /\ RowsFor(inventory, room_type_id, d) # {}
            /\ \A row \in RowsFor(inventory, room_type_id, d) :
                   SumRooms(Covering(room_type_id, d)) <= row.total_rooms

\* a night sold out by two bookings while a third request, which overlapped
\* them, was turned down
C1_Witness ==
    /\ \E room_type_id \in RoomTypes, d \in Dates :
           /\ Cardinality(Covering(room_type_id, d)) = 2
           /\ SumRooms(Covering(room_type_id, d)) = TotalInventory
    /\ outcome = "AvailabilityError"

\* ids of the rows a session has got back from get_for_date_range_with_lock
Obtained(t) == {row.id : row \in SeqToSet(sess[t].rows)}

\* C2: no two open transactions hold the lock on the same row, and the rows one
\* transaction obtained from get_for_date_range_with_lock are obtained or
\* locked by no other transaction until it commits or rolls back.
C2_RangeLockExclusion ==
    \A t \in Txns : \A u \in Txns \ {t} :
        /\ held[t] \cap held[u] = {}
        /\ Obtained(t) \cap (held[u] \cup Obtained(u)) = {}

\* one transaction has its rows, the other waits in the locking read for one
\* of them
C2_Witness ==
    \E t \in Txns : \E u \in Txns \ {t} :
        /\ pc[t] = "check"
        /\ LockBlocked(u)
        /\ NextLock(u).id \in Obtained(t)

\* the committed booking a cancelBooking session works on
Target(t) == CHOOSE b \in bookings : b.slug = req[t].slug

\* session t ends its call in this step
Ends(t) == pc[t] # "idle" /\ pc'[t] = "idle"

\* C3: a cancellation never overwrites another transaction's update of
\* booked_count: the value its commit stores in each row of the booking's
\* range is the value committed just before, lowered by the booking's
\* num_rooms (floored at zero), as it is when the rows are read under the lock.
C3_NoLostUpdate ==
    [][\A t \in Txns :
          (req[t].op = "cancelBooking" /\ Ends(t) /\ outcome' = "Booking") =>
              inventory' = ApplyUpdates(inventory,
                              decrement_booked(inventory, Target(t).room_type_id,
                                               Target(t).check_in, Target(t).check_out,
                                               Target(t).num_rooms))]_vars

\* C4: createBooking is all-or-nothing.  A step that commits a new booking
\* raises the committed booked_count of each of its nights by its num_rooms in
\* the same step; a createBooking call that ends without a booking leaves the
\* bookings and the inventory table as they were; and no step of a call that
\* has not ended changes either table.
C4_AllOrNothing ==
    [][\A t \in Txns :
          req[t].op = "createBooking" =>
              /\ (Ends(t) /\ outcome' = "Booking") =>
                     /\ \E b \in bookings' \ bookings :
                            /\ b.slug = req[t].slug
                            /\ bookings' = bookings \cup {b}
                     /\ \A room_type_id \in RoomTypes, d \in Dates :
                            BookedAt(inventory', room_type_id, d) =
                                BookedAt(inventory, room_type_id, d) +
                                (IF /\ room_type_id = req[t].room_type_id
                                    /\ d >= req[t].check_in
                                    /\ d < req[t].check_out
                                 THEN req[t].num_rooms ELSE 0)
                     /\ \A d \in req[t].check_in..(req[t].check_out - 1) :
                            RowsFor(inventory', req[t].room_type_id, d) # {}
              /\ (Ends(t) /\ outcome' # "Booking") =>
                     (inventory' = inventory /\ bookings' = bookings)
              /\ (~Ends(t) /\ sess'[t] # sess[t]) =>
                     (inventory' = inventory /\ bookings' = bookings)]_vars

\* a booking is committed and another call, which had inserted or locked rows,
\* failed to commit
C4_Witness ==
    /\ \E b \in bookings : Cardinality(Nights(b)) = 2
    /\ outcome \in {"TransientFailure", "AvailabilityError"}
    /\ next_id > Cardinality(inventory) + 1

\* what is free on the worst night of the range session t asks for, in the
\* committed table and the session's own inserts
AvailableNow(t) ==
    Min({row.total_rooms - row.booked_count :
            row \in RowsInRange(inventory \cup sess[t].ins, req[t].room_type_id,
                                req[t].check_in, req[t].check_out)})

\* C5: a createBooking call that holds its locked rows ends with
\* AvailabilityError exactly when num_rooms is greater than the minimum of
\* total_rooms - booked_count over the rows of its range, and then no booking
\* is added and no inventory row is added or changed.
C5_AvailabilityError ==
    [][\A t \in Txns :
          (pc[t] = "check" /\ Ends(t)) =>
              /\ outcome' = "AvailabilityError" <=> req[t].num_rooms > AvailableNow(t)
              /\ outcome' = "AvailabilityError" =>
                     (inventory' = inventory /\ bookings' = bookings)]_vars

\* TotalInventory rooms, all but one booked on every night, and a request for
\* more than the one left turned down
C5_Witness ==
    /\ \A d \in Dates : /\ RowsFor(inventory, 1, d) # {}
                        /\ BookedAt(inventory, 1, d) = TotalInventory - 1
    /\ outcome = "AvailabilityError"

C7_BookedWithinBounds ==
    \A row \in inventory : 0 <= row.booked_count /\ row.booked_count <= row.total_rooms

\* a sold-out night next to a night that a cancellation took back to zero
C7_Witness ==
    /\ \E row \in inventory : row.booked_count = row.total_rooms
    /\ \E row \in inventory : row.booked_count = 0
    /\ \E b \in bookings : b.status = "cancelled"

\* C8: in every committed state at most one inventory row exists for each
\* (room_type_id, date) pair.
C8_Uniqueness ==
    \A r1 \in inventory, r2 \in inventory :
        (r1.room_type_id = r2.room_type_id /\ r1.date = r2.date) => r1 = r2

\* two sessions that both read "no row" for a night: one has inserted it, the
\* other still has its own instance for the same night to flush
C8_Witness ==
    \E t \in Txns : \E u \in Txns \ {t} :
        \E row \in sess[t].ins : UniqueViolation(sess[u].pending, row)

\* C9: the uniqueness violation hit by the loser of a racing ensure_rows_exist
\* never reaches the caller: no createBooking call ends with IntegrityError.
C9_ViolationRecovered ==
    outcome # "IntegrityError"

\* the direct call made in this step
Called(op) == started' = started + 1 /\ last'.op = op

\* C10: a call of ensure_rows_exist, with whatever total_rooms, leaves every
\* row that exists as it is (same total_rooms, same booked_count), and after
\* it a second call over the same range finds no date to create a row for.
C10_EnsureIdempotent ==
    [][Called("ensure_rows_exist") =>
          /\ inventory \subseteq inventory'
          /\ \A total_rooms \in Totals :
                 ensure_rows_exist(inventory', last'.room_type_id, last'.start_date,
                                   last'.end_date, total_rooms) = {}]_vars

\* ensure_rows_exist called with another total_rooms over a range that holds a
\* row with rooms booked
C10_Witness ==
    /\ last.op = "ensure_rows_exist"
    /\ last.raised = "none"
    /\ \E row \in RowsInRange(inventory, last.room_type_id, last.start_date, last.end_date) :
           /\ row.total_rooms # last.count
           /\ row.booked_count > 0

\* C11: after ensure_rows_exist(room_type_id, start, end, total_rooms) with
\* start < end, every date of [start, end) has exactly one row of the room
\* type; each row the call created has the total_rooms given and booked_count
\* 0, and lies in [start, end) of that room type.
C11_EnsureCreatesRange ==
    [][(Called("ensure_rows_exist") /\ last'.start_date < last'.end_date) =>
          /\ \A d \in last'.start_date..(last'.end_date - 1) :
                 Cardinality(RowsFor(inventory', last'.room_type_id, d)) = 1
          /\ \A row \in inventory' \ inventory :
                 /\ row.total_rooms = last'.count
                 /\ row.booked_count = 0
                 /\ row.room_type_id = last'.room_type_id
                 /\ last'.start_date <= row.date
                 /\ row.date < last'.end_date]_vars

\* a two-night range in which the call found one row, of another capacity
\* and with rooms booked, and created the other
C11_Witness ==
    /\ last.op = "ensure_rows_exist"
    /\ last.end_date = last.start_date + 2
    /\ \E row \in RowsInRange(inventory, last.room_type_id, last.start_date, last.end_date) :
           /\ row.id = next_id - 1
           /\ row.total_rooms = last.count
           /\ row.booked_count = 0
    /\ \E row \in RowsInRange(inventory, last.room_type_id, last.start_date, last.end_date) :
           /\ row.id < next_id - 1
           /\ row.total_rooms # last.count
           /\ row.booked_count > 0

\* the rows of a room type whose date is one of start, ..., end - 1 (none when
\* start >= end)
HalfOpen(table, room_type_id, start_date, end_date) ==
    {row \in table : /\ row.room_type_id = room_type_id
                      /\ row.date \in start_date..(end_date - 1)}

\* the row of the table after the step that has the id of row
After(row) == CHOOSE r \in inventory' : r.id = row.id

\* C12: ensure_rows_exist, get_for_date_range_with_lock, check_availability
\* and decrement_booked act on exactly the dates d with start <= d < end: the
\* row of end is never created, returned, counted or changed; called with
\* start >= end they change no state, get_for_date_range_with_lock returns the
\* empty list and check_availability returns (TRUE, 0).
C12_HalfOpenRange ==
    [][LET target == HalfOpen(inventory, last'.room_type_id, last'.start_date,
                              last'.end_date)
           empty == last'.start_date >= last'.end_date
       IN  /\ Called("ensure_rows_exist") =>
                  /\ inventory \subseteq inventory'
                  /\ \A row \in inventory' \ inventory :
                         row.date \in last'.start_date..(last'.end_date - 1)
                  /\ empty => (inventory' = inventory /\ next_id' = next_id)
           /\ Called("get_for_date_range_with_lock") =>
                  /\ SeqToSet(last'.ret) = target
                  /\ empty => last'.ret = <<>>
                  /\ inventory' = inventory
           /\ Called("check_availability") =>
                  /\ last'.ret =
                         IF empty THEN <<TRUE, 0>>
                         ELSE IF target = {} THEN <<FALSE, 0>>
                         ELSE LET m == Min({row.total_rooms - row.booked_count :
                                               row \in target})
                              IN  <<m >= last'.count, m>>
                  /\ inventory' = inventory
           /\ Called("decrement_booked") =>
                  /\ {row.id : row \in inventory'} = {row.id : row \in inventory}
                  /\ \A row \in inventory :
                         After(row) =
                             IF row \in target
                             THEN [row EXCEPT !.booked_count =
                                      Max2(0, row.booked_count - last'.count)]
                             ELSE row
                  /\ empty => inventory' = inventory]_vars

\* decrement_booked over a range that ends at a night with rooms booked: the
\* night before is back at zero, the night of end still carries its rooms
C12_Witness ==
    /\ last.op = "decrement_booked"
    /\ last.start_date < last.end_date
    /\ last.count > 0
    /\ \E row \in RowsFor(inventory, last.room_type_id, last.end_date) :
           row.booked_count > 0
    /\ \E row \in RowsFor(inventory, last.room_type_id, last.end_date - 1) :
           row.booked_count = 0

\* C13: whatever increment_booked and decrement_booked calls (counts >= 0)
\* are made, every row's booked_count stays >= 0, and decrement_booked by
\* more than a row's booked_count leaves that row at exactly 0.
C13_FloorAtZero ==
    [][/\ \A row \in inventory' : row.booked_count >= 0
       /\ Called("decrement_booked") =>
              \A row \in HalfOpen(inventory, last'.room_type_id, last'.start_date,
                                  last'.end_date) :
                  row.booked_count < last'.count => After(row).booked_count = 0]_vars

\* rows that carried fewer rooms than the decrement took: the row of the range
\* is at zero, the row next to the range still carries its single room
C13_Witness ==
    /\ last.op = "decrement_booked"
    /\ last.count = TotalInventory
    /\ \E row \in RowsInRange(inventory, last.room_type_id, last.start_date, last.end_date) :
           row.booked_count = 0
    /\ \E row \in RowsFor(inventory, last.room_type_id, last.end_date) :
           row.booked_count = 1

\* C14: for a non-empty range that holds at least one row of the room type,
\* check_availability returns (m >= num_rooms, m) with m the least
\* total_rooms - booked_count over the rows of the range; a fully booked
\* night makes the range unavailable for any num_rooms >= 1.
C14_WorstNight ==
    [][LET target == HalfOpen(inventory, last'.room_type_id, last'.start_date,
                              last'.end_date)
       IN  (Called("check_availability") /\ last'.start_date < last'.end_date
                /\ target # {}) =>
               /\ \E worst \in target :
                      /\ \A row \in target :
                             worst.total_rooms - worst.booked_count
                                 <= row.total_rooms - row.booked_count
                      /\ last'.ret[2] = worst.total_rooms - worst.booked_count
               /\ last'.ret[1] = (last'.ret[2] >= last'.count)
               /\ ( /\ \E row \in target : row.booked_count >= row.total_rooms
                    /\ last'.count >= 1 ) => last'.ret[1] = FALSE]_vars

\* two nights asked for, one with nothing booked and one sold out: (FALSE, 0)
C14_Witness ==
    /\ last.op = "check_availability"
    /\ last.end_date = last.start_date + 2
    /\ last.count >= 1
    /\ last.ret = <<FALSE, 0>>
    /\ \E row \in RowsInRange(inventory, last.room_type_id, last.start_date, last.end_date) :
           row.booked_count = 0 /\ row.total_rooms > 0
    /\ \E row \in RowsInRange(inventory, last.room_type_id, last.start_date, last.end_date) :
           row.booked_count = row.total_rooms

\* C15: check_availability returns (TRUE, 0) for every num_rooms when
\* start >= end, and (FALSE, 0) for every num_rooms when start < end and the
\* range holds no row of the room type.
C15_ZeroCases ==
    [][Called("check_availability") =>
          /\ last'.start_date >= last'.end_date => last'.ret = <<TRUE, 0>>
          /\ ( /\ last'.start_date < last'.end_date
               /\ HalfOpen(inventory, last'.room_type_id, last'.start_date,
                           last'.end_date) = {} ) => last'.ret = <<FALSE, 0>>]_vars

\* zero rooms asked for over nights that hold rows of another room type only:
\* (FALSE, 0)
C15_Witness ==
    /\ last.op = "check_availability"
    /\ last.start_date < last.end_date
    /\ last.count = 0
    /\ last.ret = <<FALSE, 0>>
    /\ \E row \in inventory :
           /\ row.room_type_id # last.room_type_id
           /\ row.date >= last.start_date
           /\ row.date < last.end_date
           /\ row.booked_count < row.total_rooms

\* C16: check_availability is read-only and takes no lock.  Whatever its
\* arguments and whatever rows open transactions hold, the call can be made
\* and returns; it creates no row, changes no row and no booking, takes no
\* lock, and leaves every open transaction as blocked or as free to go on as
\* it was.
C16_ReadOnlyNoLock ==
    /\ [](\A room_type_id \in RoomTypes, start_date \in DateArgs, end_date \in DateArgs,
             num_rooms \in CountArgs :
               (started < MaxOps /\ last.op \notin ReadOnly) =>
                   ENABLED CheckAvailabilityQuery(room_type_id, start_date,
                                                  end_date, num_rooms))
    /\ [][Called("check_availability") =>
             /\ inventory' = inventory
             /\ bookings' = bookings
             /\ next_id' = next_id
             /\ held' = held
             /\ sess' = sess
             /\ \A t \in Txns : Blocked(t)' = Blocked(t)]_vars

\* check_availability answered for a range of which one row is locked by a
\* transaction that has read it, while another transaction waits for that row
C16_Witness ==
    /\ last.op = "check_availability"
    /\ last.start_date < last.end_date
    /\ \E t \in Txns : \E u \in Txns \ {t} :
           /\ pc[t] = "check"
           /\ Blocked(u)
           /\ \E row \in RowsInRange(Physical, last.room_type_id, last.start_date,
                                      last.end_date) : row.id \in Obtained(t)

\* C17 as stated: the first check_availability or get_for_date_range_with_lock
\* over a range creates the inventory rows of its dates, so that after the
\* call every date of [start, end) has a row of the room type.
C17_LazyOnQuery ==
    [][( /\ Called("check_availability") \/ Called("get_for_date_range_with_lock")
         /\ last'.start_date < last'.end_date ) =>
           \A d \in last'.start_date..(last'.end_date - 1) :
               RowsFor(inventory', last'.room_type_id, d) # {}]_vars

\* C17 as the code has it: rows are created by ensure_rows_exist only;
\* check_availability and get_for_date_range_with_lock leave the table as it
\* is, and a date without a row before the query has none after it.
C17_OnlyEnsureCreates ==
    [][/\ (\E row \in inventory' : row.id \notin {r.id : r \in inventory}) =>
              Called("ensure_rows_exist")
       /\ (Called("check_availability") \/ Called("get_for_date_range_with_lock")) =>
              (inventory' = inventory /\ next_id' = next_id)]_vars

\* a query over two nights of which one has a row and the other has none
C17_Witness ==
    /\ last.op \in ReadOnly
    /\ last.end_date = last.start_date + 2
    /\ RowsFor(inventory, last.room_type_id, last.start_date) = {}
    /\ RowsFor(inventory, last.room_type_id, last.start_date + 1) # {}

\* C18: inventory rows are permanent and keep their capacity.  A row of the
\* committed table is in the table after every step, with the same id, room
\* type, date and total_rooms; a change of the room type's total_inventory
\* changes no row; and only the rows ensure_rows_exist creates afterwards
\* carry the capacity it is then called with.
C18_RowsPermanent ==
    [][/\ \A row \in inventory : \E r \in inventory' :
              /\ r.id = row.id
              /\ r.room_type_id = row.room_type_id
              /\ r.date = row.date
              /\ r.total_rooms = row.total_rooms
       /\ Called("RoomTypeService.update") => inventory' = inventory
       /\ \A r \in inventory' :
              r.id \notin {row.id : row \in inventory} =>
                  (Called("ensure_rows_exist") /\ r.total_rooms = last'.count)]_vars

\* the room type's total_inventory was changed between two ensure_rows_exist
\* calls: the older row has the old capacity, the newer row the new one
C18_Witness ==
    /\ last.op = "ensure_rows_exist"
    /\ last.count = total_inventory[last.room_type_id]
    /\ last.count # TotalInventory
    /\ \E row \in inventory : \E r \in inventory :
           /\ row.room_type_id = last.room_type_id
           /\ r.room_type_id = last.room_type_id
           /\ row.id < r.id
           /\ row.total_rooms = TotalInventory
           /\ r.total_rooms = last.count

\* C19: get_for_date_range_with_lock(room_type_id, start, end) returns exactly
\* the existing rows of the room type with start <= date < end, each once, in
\* strictly ascending date order, and no row of another room type.
C19_LockedRowsOrdered ==
    [][Called("get_for_date_range_with_lock") =>
          /\ SeqToSet(last'.ret) =
                 HalfOpen(inventory, last'.room_type_id, last'.start_date, last'.end_date)
          /\ Len(last'.ret) =
                 Cardinality(HalfOpen(inventory, last'.room_type_id, last'.start_date,
                                      last'.end_date))
          /\ \A i \in 1..Len(last'.ret) :
                 /\ last'.ret[i].room_type_id = last'.room_type_id
                 /\ i < Len(last'.ret) => last'.ret[i].date < last'.ret[i + 1].date]_vars

\* two rows returned of which the earlier night was inserted last
C19_Witness ==
    /\ last.op = "get_for_date_range_with_lock"
    /\ Len(last.ret) = 2
    /\ last.ret[1].id > last.ret[2].id
    /\ last.ret[1].date < last.ret[2].date

\* C20: increment_booked(rows, count) adds exactly count to booked_count of
\* each given row; decrement_booked(room_type_id, start, end, count) sets
\* booked_count to max(0, booked_count - count) on each row of the room type
\* in [start, end).  Both leave total_rooms of every row and booked_count of
\* every other row (other dates, other room types) as they were, and create
\* no row.
C20_MutatorFrame ==
    [][LET target == HalfOpen(inventory, last'.room_type_id, last'.start_date,
                              last'.end_date)
       IN  /\ Called("increment_booked") =>
                  /\ \A row \in inventory :
                         After(row) =
                             IF row \in target
                             THEN [row EXCEPT !.booked_count = row.booked_count + last'.count]
                             ELSE row
                  /\ Cardinality(inventory') = Cardinality(inventory)
                  /\ next_id' = next_id
           /\ Called("decrement_booked") =>
                  /\ \A row \in inventory :
                         After(row) =
                             IF row \in target
                             THEN [row EXCEPT !.booked_count =
                                      IF row.booked_count >= last'.count
                                      THEN row.booked_count - last'.count ELSE 0]
                             ELSE row
                  /\ Cardinality(inventory') = Cardinality(inventory)
                  /\ next_id' = next_id]_vars

\* increment_booked over nights on which another room type has rows too: the
\* rows of the range carry the count, the other room type's rows carry nothing
C20_Witness ==
    /\ last.op = "increment_booked"
    /\ last.count > 0
    /\ \E row \in RowsInRange(inventory, last.room_type_id, last.start_date, last.end_date) :
           /\ row.booked_count = last.count
           /\ \E o \in inventory : /\ o.room_type_id # row.room_type_id
                                    /\ o.date = row.date
                                    /\ o.booked_count = 0

\* C21: createBooking for a stay of no night (check_in = check_out) is turned
\* down before any ledger operation runs: the call ends at once with a
\* validation error, no session carries such a request into the ledger, no
\* booking of no night is ever stored, and the step that turns the request
\* down (it starts a call and leaves no session open) leaves both tables, the
\* id counter, every session's unit of work and every lock as they were.
C21_ZeroNightRejected ==
    [][/\ \A t \in Txns :
              req'[t].op = "createBooking" => req'[t].check_in < req'[t].check_out
       /\ \A b \in bookings' : b.check_in < b.check_out
       /\ (started' = started + 1 /\ AllIdle' /\ outcome' = "ValidationError") =>
              UNCHANGED <<inventory, bookings, next_id, req, sess, held>>]_vars

\* a stay of no night asked for, and turned down, while rooms of the room
\* types are booked
C21_Witness ==
    /\ outcome = "ValidationError"
    /\ \E b \in bookings : b.status = "pending"
    /\ \E row \in inventory : row.booked_count > 0

\* the statuses after which a booking is meant to change no more
Terminal == {"cancelled", "no_show", "checked_out"}

\* C22: a booking is stored with status PENDING, and once its status is
\* CANCELLED, NO_SHOW or CHECKED_OUT no later operation changes it.
C22_TerminalStatus ==
    [][/\ \A b \in bookings' :
              (\A o \in bookings : o.slug # b.slug) => b.status = "pending"
       /\ \A b \in bookings : \A o \in bookings' :
              (b.status \in Terminal /\ o.slug = b.slug) => o.status = b.status]_vars

\* C23: cancelBooking on an identifier that matches no booking, or only a
\* soft-deleted booking, ends with NotFoundError and changes nothing: no
\* booking row (status included) and no inventory row changes, and no session
\* is opened for it.  A cancelBooking session is only ever opened for a booking
\* that is stored and not soft-deleted.
C23_CancelNotFound ==
    [][\A t \in Txns :
          /\ \A slug \in 1..MaxCalls :
                 (/\ BeginCancel(t, slug)
                  /\ \A b \in bookings : b.slug = slug => b.deleted) =>
                     /\ outcome' = "NotFoundError"
                     /\ UNCHANGED <<inventory, bookings, next_id, pc, req, sess, held>>
          /\ (req[t].op = "none" /\ req'[t].op = "cancelBooking") =>
                 \E b \in bookings : b.slug = req'[t].slug /\ ~b.deleted]_vars

\* the cancellation of a soft-deleted booking, whose rooms are still counted
\* in the ledger, was turned down
C23_Witness ==
    /\ outcome = "NotFoundError"
    /\ \A b \in bookings : b.deleted /\ b.status = "pending"
    /\ \E b \in bookings : \A d \in Nights(b) :
           BookedAt(inventory, b.room_type_id, d) = b.num_rooms

\* C24: once the soft delete of a booking is committed, in every later state
\* get_by_slug finds nothing for its slug, slug_exists is false for its slug,
\* and get_by_guest and count_by_guest answer as if the row were not in the
\* table; no operation clears the mark again; and the soft delete of a booking
\* leaves every inventory row as it is.
C24_SoftDeleteHides ==
    [][/\ \A b \in bookings' :
              b.deleted =>
                  /\ get_by_slug(bookings', b.slug) = {}
                  /\ ~slug_exists(bookings', b.slug)
                  /\ count_by_guest(bookings', b.guest_id) =
                         count_by_guest(bookings' \ {b}, b.guest_id)
                  /\ \A offset \in Offsets, limit \in Offsets :
                         /\ get_by_guest(bookings', b.guest_id, offset, limit) =
                                get_by_guest(bookings' \ {b}, b.guest_id, offset, limit)
                         /\ \A list \in get_by_guest(bookings', b.guest_id, offset, limit) :
                                b \notin SeqToSet(list)
       /\ \A b \in bookings :
              b.deleted => \E o \in bookings' : o.slug = b.slug /\ o.deleted
       /\ (\E b \in bookings : ~b.deleted /\ [b EXCEPT !.deleted = TRUE] \in bookings') =>
              inventory' = inventory]_vars

\* a soft-deleted booking next to a booking of the same guest that is not
\* deleted, the rooms of both still counted in the ledger
C24_Witness ==
    \E b \in bookings : \E o \in bookings :
        /\ b.deleted
        /\ ~o.deleted
        /\ o.guest_id = b.guest_id
        /\ \E row \in inventory : row.booked_count = b.num_rooms + o.num_rooms
        /\ outcome = "Booking"

\* C25: a createBooking call for a stay of at least one night ends in exactly
\* one of four ways: a booking, AvailabilityError, NotFoundError or a transient
\* storage failure; and a createBooking call that ends with NotFoundError has
\* created or changed no ledger row (it ends in the step it starts, with
\* nothing read, inserted or locked).
C25_ThreeFailures ==
    [][/\ \A t \in Txns :
              (req[t].op = "createBooking" /\ Ends(t)) =>
                  outcome' \in {"Booking", "AvailabilityError",
                                "NotFoundError(room_type)", "TransientFailure"}
       /\ (started' = started + 1 /\ pc' = pc /\ outcome' = "NotFoundError(room_type)") =>
              UNCHANGED <<inventory, bookings, next_id, req, sess, held>>]_vars

\* the bookings of a guest that are not soft-deleted
BookingsOf(table, guest_id) == {b \in table : b.guest_id = guest_id /\ ~b.deleted}

\* C26: get_by_guest(guest_id, offset, limit) returns bookings of that guest
\* that are not soft-deleted, each at most once, in descending check_in order;
\* it returns as many as are left after the first offset of them, at most
\* limit; the booking at place i of the list is at place offset + i of the
\* guest's bookings in descending check_in order.  count_by_guest returns the
\* number of the guest's bookings that are not soft-deleted, whatever page was
\* asked for.
C26_GuestPage ==
    [][/\ Called("get_by_guest") =>
              LET list == last'.ret
                  mine == BookingsOf(bookings, last'.guest_id)
                  left == Cardinality(mine) - last'.offset
              IN  /\ SeqToSet(list) \subseteq mine
                  /\ Cardinality(SeqToSet(list)) = Len(list)
                  /\ \A i \in 1..Len(list) : \A j \in i..Len(list) :
                         list[i].check_in >= list[j].check_in
                  /\ Len(list) = IF left <= 0 THEN 0
                                 ELSE IF left < last'.limit THEN left ELSE last'.limit
                  /\ \A i \in 1..Len(list) :
                         /\ Cardinality({b \in mine : b.check_in > list[i].check_in})
                                <= last'.offset + i - 1
                         /\ Cardinality({b \in mine : b.check_in >= list[i].check_in})
                                >= last'.offset + i
       /\ Called("count_by_guest") =>
              last'.ret = Cardinality(BookingsOf(bookings, last'.guest_id))]_vars

\* the second page of a guest who has bookings with different check_in dates,
\* while the table also holds a row the page must leave out
C26_Witness ==
    /\ last.op = "get_by_guest"
    /\ last.offset > 0
    /\ Len(last.ret) > 0
    /\ \E b \in BookingsOf(bookings, last.guest_id) : b.check_in > last.ret[1].check_in
    /\ \E b \in bookings : b.guest_id # last.guest_id \/ b.deleted

\* C27: with createBooking and cancelBooking calls run one at a time, a
\* cancelBooking of an already cancelled booking included, in every committed
\* state and for every night the booked_count of the night's row is the sum
\* of num_rooms over the non-cancelled bookings that cover the night.
C27_LedgerMatchesBookings ==
    \A room_type_id \in RoomTypes, d \in Dates :
        BookedAt(inventory, room_type_id, d) = SumRooms(Covering(room_type_id, d))

\* C28: check_availability over a range of at least one night answers
\* "available" only if every night of [start_date, end_date) has a row of the
\* room type with total_rooms - booked_count >= num_rooms; a range with rows
\* for some of its nights only is not answered "available".
C28_EveryNightCovered ==
    [][(/\ Called("check_availability")
        /\ last'.start_date < last'.end_date
        /\ last'.ret[1]) =>
           \A d \in last'.start_date..(last'.end_date - 1) :
               \E row \in RowsFor(inventory, last'.room_type_id, d) :
                   row.total_rooms - row.booked_count >= last'.count]_vars

\* C29: with concurrent createBooking and cancelBooking transactions over
\* overlapping nights, no state is reached in which transactions are open and
\* every one of them waits for a row lock.  (The claim goes on: under fair
\* granting of released locks every transaction then commits or aborts.)
C29_NoDeadlock ==
    (\E t \in Txns : pc[t] # "idle") =>
        \E t \in Txns : pc[t] # "idle" /\ ~Blocked(t)

\* C30: the slug generate_unique_slug returns, with slug_exists as its check,
\* is held by no row of the bookings table, the soft-deleted rows included, so
\* the INSERT of the new booking is never refused by the unique index on
\* slug; and the loop that looks for it ends after at most as many rounds as
\* the table has rows.
C30_SlugUnique ==
    [][Called("create") =>
          /\ ~SlugViolation(bookings, last'.slug)
          /\ last'.raised = "none"
          /\ last'.slug[2] <= Cardinality(bookings)]_vars
====
